---- MODULE Spec2Model ----
(***************************************************************************)
(* A model of QuantPDE's Axis (src/src/Axis.hpp) and of the bermudan_put   *)
(* driver (src/test/bermudan_put.cpp).                                     *)
(*                                                                         *)
(* Axis objects live in named slots (automatic variables); their tick      *)
(* buffers live in a heap of numbered allocations that are never reused,   *)
(* so that a double delete[] or a shared buffer is visible in the state.   *)
(* A Real is an IEEE-754 binary floating-point number with a PrecBits-bit  *)
(* significand, round-to-nearest-even, gradual underflow and overflow to   *)
(* infinity; it is represented by its value in units of the smallest       *)
(* subnormal, so every Real is an integer and Inf is the first magnitude   *)
(* that is no longer finite.                                               *)
(***************************************************************************)
EXTENDS Integers, Sequences, FiniteSets, TLC

\* ---------------------------------------------------------------- bounds
PrecBits == 4
MaxExp == 2
MaxLen == 2
MaxAllocs == 3

\* ------------------------------------------------------- Real arithmetic
RECURSIVE Pow2(_)
Pow2(k) == IF k = 0 THEN 1 ELSE 2 * Pow2(k - 1)

MaxMant == Pow2(PrecBits)

Inf == Pow2(PrecBits + MaxExp)

Abs(x) == IF x < 0 THEN -x ELSE x

Sign(x) == IF x < 0 THEN -1 ELSE 1

RECURSIVE UlpOf(_, _)
UlpOf(x, ulp) == IF x < MaxMant * ulp THEN ulp ELSE UlpOf(x, 2 * ulp)

\* round-to-nearest, ties to the even significand, of an exact magnitude
RoundMag(x) ==
    LET ulp  == UlpOf(x, 1)
        quo  == x \div ulp
        rem  == x % ulp
        up   == (2 * rem > ulp) \/ (2 * rem = ulp /\ quo % 2 = 1)
        res  == (IF up THEN quo + 1 ELSE quo) * ulp
    IN  IF res >= Inf THEN Inf ELSE res

\* a + b on Reals
FAdd(a, b) ==
    IF Abs(a) = Inf THEN a
    ELSE IF Abs(b) = Inf THEN b
    ELSE Sign(a + b) * RoundMag(Abs(a + b))

\* x / 2. on Reals: exact unless x is an odd multiple of the smallest
\* subnormal, where the tie goes to the even neighbour
FHalf(x) ==
    IF Abs(x) = Inf THEN x
    ELSE IF Abs(x) % 2 = 0 THEN Sign(x) * (Abs(x) \div 2)
    ELSE LET lo == (Abs(x) - 1) \div 2
         IN  Sign(x) * (IF lo % 2 = 0 THEN lo ELSE lo + 1)

\* (a + b)/2. as refine() evaluates it
Midpoint(a, b) == FHalf(FAdd(a, b))

\* ------------------------------------------------------------ Axis state
VARIABLES ndebug, objs, heap, ret, outcome

axisVars == <<ndebug, objs, heap, ret, outcome>>

\* ---------------------------------------------------------- driver state
\* main()'s variables: the option values, the position in main (pc), getopt's
\* optind, the exit status, what went to stderr and stdout, the grid, and the
\* stepper with its registered events
VARIABLES charUnsigned, pc, K, T, r, v, q, R, e, N, optind, exit, err, out, grid, refineI, events

mainVars == <<charUnsigned, pc, K, T, r, v, q, R, e, N, optind, exit, err, out, grid, refineI, events>>

\* a run of stepper.solve: the nodes, the number of steps, the steps solved,
\* the iterate, where the loop stands and the events applied so far
VARIABLES nodes, nsteps, step, iterate, phase, applied

stepVars == <<nodes, nsteps, step, iterate, phase, applied>>

driverVars == <<mainVars, stepVars>>

vars == <<axisVars, driverVars>>

\* the driver's variables while only Axis objects are exercised
IdleDriver ==
    /\ charUnsigned = FALSE /\ pc = "idle"
    /\ K = 0 /\ T = 0 /\ r = 0 /\ v = 0 /\ q = 0 /\ R = 0 /\ e = 0 /\ N = 0
    /\ optind = 0 /\ exit = -1 /\ err = "" /\ out = "" /\ grid = <<>> /\ refineI = 0
    /\ events = <<>>
    /\ nodes = <<>> /\ nsteps = 0 /\ step = 0 /\ iterate = <<>>
    /\ phase = "idle" /\ applied = <<>>

\* the automatic variables that may hold an Axis
Objs == {"a", "b"}

NULL == 0

NoObj == [st |-> "none", n |-> NULL, length |-> 0]

\* the largest finite Real
MaxFinite == (MaxMant - 1) * Pow2(MaxExp)

\* the tick values the constructors and writes are fed
TickVals == {2, 4}

\* tick values that reach the rounding and overflow cases of (a + b)/2.
EdgeVals == {-1, 0, 1, 2, MaxMant - 2, MaxMant - 1, MaxFinite}

\* the longest Axis refine() is applied to stays below this
MaxTicks == 2 * MaxLen - 1

RECURSIVE SeqsUpTo(_, _)
SeqsUpTo(S, k) ==
    IF k = 0 THEN {<<>>}
    ELSE LET shorter == SeqsUpTo(S, k - 1)
         IN  shorter \cup {Append(s, x) : s \in {t \in shorter : Len(t) = k - 1}, x \in S}

TickLists == SeqsUpTo(TickVals, MaxLen)

EdgeLists == SeqsUpTo(EdgeVals, MaxLen + 1)

\* the indices the ticks are read and written at
TickIdx == {0}

\* a monotone check that lets equal neighbours through (<= for <)
RECURSIVE MonotoneCheckNonStrict(_, _)
MonotoneCheckNonStrict(s, p) ==
    IF p < Len(s) THEN s[p] <= s[p + 1] /\ MonotoneCheckNonStrict(s, p + 1) ELSE TRUE

\* the debug-build loop of the list constructor: p walks n .. n + length - 2
\* and every *p < *(p+1) must hold
RECURSIVE MonotoneCheck(_, _)
MonotoneCheck(s, p) ==
    IF p < Len(s) THEN s[p] < s[p + 1] /\ MonotoneCheck(s, p + 1) ELSE TRUE

Live(o) == objs[o].st = "live"

\* the ticks an Axis holds: length entries read through n
TicksOf(o) == IF objs[o].n = NULL THEN <<>> ELSE heap[objs[o].n].data

\* new Real[length] followed by filling it with data
Alloc(h, data) == Append(h, [data |-> data, freed |-> 0])

\* delete [] p
Delete(h, p) ==
    IF p = NULL THEN h
    ELSE [h EXCEPT ![p] = [data |-> <<>>, freed |-> @.freed + 1]]

CanAlloc == Len(heap) < MaxAllocs

Running == outcome = "ok"

NoRet == [op |-> "none", val |-> 0]

Usable(o) == Live(o) /\ objs[o].n # NULL

\* what new Real[length] holds before it is written
Indeterminate == -(Inf + 1)

\* ------------------------------------------------------------ Axis::refine
\* a refine() loop that stores the original tick before the midpoint
RECURSIVE refineLoopSwapped(_, _, _, _)
refineLoopSwapped(src, i, j, refined) ==
    IF i < Len(src)
    THEN refineLoopSwapped(src, i + 1, j + 2,
                    [refined EXCEPT ![j + 1] = src[i + 1],
                                    ![j + 2] = Midpoint(src[i], src[i + 1])])
    ELSE refined

\* the loop of refine(): i and j are the code's 0-based counters, refined(j)
\* is refined[j + 1] and n[i] is src[i + 1]
RECURSIVE refineLoop(_, _, _, _)
refineLoop(src, i, j, refined) ==
    IF i < Len(src)
    THEN refineLoop(src, i + 1, j + 2,
                    [refined EXCEPT ![j + 1] = Midpoint(src[i], src[i + 1]),
                                    ![j + 2] = src[i + 1]])
    ELSE refined

\* the ticks of the Axis refine() returns, for an Axis with length >= 1
refine(src) ==
    LET fresh == [k \in 1..(Len(src) * 2 - 1) |-> Indeterminate]
    IN  refineLoop(src, 1, 1, [fresh EXCEPT ![1] = src[1]])

\* -------------------------------------------------------- Axis operations
\* Axis(std::initializer_list<Real>)
ListCtor(o, list) ==
    /\ Running /\ ~Live(o) /\ CanAlloc
    /\ IF ~ndebug /\ Len(list) = 0
       THEN \* assert(length > 0) fails before anything is allocated
            /\ outcome' = "assert"
            /\ UNCHANGED <<objs, heap>>
       ELSE IF ~ndebug /\ ~MonotoneCheck(list, 1)
       THEN \* assert(*p < *(p+1)) fails after the buffer was filled
            /\ outcome' = "assert"
            /\ heap' = Alloc(heap, list)
            /\ UNCHANGED objs
       ELSE /\ heap' = Alloc(heap, list)
            /\ objs' = [objs EXCEPT ![o] =
                         [st |-> "live", n |-> Len(heap) + 1, length |-> Len(list)]]
            /\ UNCHANGED outcome
    /\ ret' = NoRet
    /\ UNCHANGED ndebug
    /\ UNCHANGED driverVars

\* Axis(const Vector &)
VectorCtor(o, vector) ==
    /\ Running /\ ~Live(o) /\ CanAlloc
    /\ heap' = Alloc(heap, vector)
    /\ objs' = [objs EXCEPT ![o] =
                 [st |-> "live", n |-> Len(heap) + 1, length |-> Len(vector)]]
    /\ ret' = NoRet
    /\ UNCHANGED <<ndebug, outcome>>
    /\ UNCHANGED driverVars

\* a copy constructor that shares that's buffer instead of copying it
CopyCtorShallow(o, that) ==
    /\ Running /\ ~Live(o) /\ Usable(that) /\ CanAlloc
    /\ objs' = [objs EXCEPT ![o] =
                 [st |-> "live", n |-> objs[that].n, length |-> objs[that].length]]
    /\ ret' = [op |-> "copy", val |-> objs[that].n]
    /\ UNCHANGED <<ndebug, heap, outcome>>
    /\ UNCHANGED driverVars

\* a copy constructor that takes that's buffer, as the move constructor does
CopyCtorSteals(o, that) ==
    /\ Running /\ ~Live(o) /\ Usable(that) /\ CanAlloc
    /\ objs' = [objs EXCEPT ![o] =
                 [st |-> "live", n |-> objs[that].n, length |-> objs[that].length],
                            ![that].n = NULL]
    /\ ret' = [op |-> "copy", val |-> objs[that].n]
    /\ UNCHANGED <<ndebug, heap, outcome>>
    /\ UNCHANGED driverVars

\* Axis(const Axis &that)
CopyCtor(o, that) ==
    /\ Running /\ ~Live(o) /\ Usable(that) /\ CanAlloc
    /\ heap' = Alloc(heap, TicksOf(that))
    /\ objs' = [objs EXCEPT ![o] =
                 [st |-> "live", n |-> Len(heap) + 1, length |-> objs[that].length]]
    /\ ret' = [op |-> "copy", val |-> objs[that].n]
    /\ UNCHANGED <<ndebug, outcome>>
    /\ UNCHANGED driverVars

\* the fields of *this and of that after Axis(Axis &&that)
MovedInto(that) == [st |-> "live", n |-> that.n, length |-> that.length]

\* a move that forgets that.n = NULL
MovedFromKeepsN(that) == that

MovedFrom(that) == [that EXCEPT !.n = NULL]

\* Axis(Axis &&that)
MoveCtor(o, that) ==
    /\ Running /\ ~Live(o) /\ Live(that)
    /\ objs' = [objs EXCEPT ![o] = MovedInto(objs[that]),
                            ![that] = MovedFrom(objs[that])]
    /\ ret' = NoRet
    /\ UNCHANGED <<ndebug, heap, outcome>>
    /\ UNCHANGED driverVars

\* ~Axis()
Dtor(o) ==
    /\ Running /\ Live(o)
    /\ heap' = Delete(heap, objs[o].n)
    /\ objs' = [objs EXCEPT ![o] = NoObj]
    /\ ret' = NoRet
    /\ UNCHANGED <<ndebug, outcome>>
    /\ UNCHANGED driverVars

\* the body of operator=(Axis that) and the destruction of its parameter:
\* *this takes that's length and buffer, that's destructor deletes the old one
AssignBody(os, h, o, that) ==
    [objs |-> [os EXCEPT ![o] = [st |-> "live", n |-> that.n, length |-> that.length]],
     heap |-> Delete(h, os[o].n)]

\* o = src;  (the parameter is copy-constructed from src)
CopyAssign(o, src) ==
    /\ Running /\ Live(o) /\ Usable(src) /\ CanAlloc
    /\ LET that == [n |-> Len(heap) + 1, length |-> objs[src].length]
           res  == AssignBody(objs, Alloc(heap, TicksOf(src)), o, that)
       IN  /\ objs' = res.objs
           /\ heap' = res.heap
    /\ ret' = NoRet
    /\ UNCHANGED <<ndebug, outcome>>
    /\ UNCHANGED driverVars

\* o = std::move(src);  (the parameter is move-constructed from src)
MoveAssign(o, src) ==
    /\ Running /\ Live(o) /\ Live(src)
    /\ LET that == MovedInto(objs[src])
           os   == [objs EXCEPT ![src] = MovedFrom(objs[src])]
           res  == AssignBody(os, heap, o, that)
       IN  /\ objs' = res.objs
           /\ heap' = res.heap
    /\ ret' = NoRet
    /\ UNCHANGED <<ndebug, outcome>>
    /\ UNCHANGED driverVars

\* o(i) = v;  through the reference the non-const operator()(Index) returns
WriteTick(o, i, val) ==
    /\ Running /\ Usable(o) /\ i < objs[o].length
    /\ heap' = [heap EXCEPT ![objs[o].n].data[i + 1] = val]
    /\ ret' = NoRet
    /\ UNCHANGED <<ndebug, objs, outcome>>
    /\ UNCHANGED driverVars

\* o(i) read through the const operator()(Index)
ReadTick(o, i) ==
    /\ Running /\ Usable(o) /\ i < objs[o].length
    /\ ret' = [op |-> "tick", val |-> TicksOf(o)[i + 1]]
    /\ UNCHANGED <<ndebug, objs, heap, outcome>>
    /\ UNCHANGED driverVars

\* o.ticks()
Ticks(o) ==
    /\ Running /\ Live(o)
    /\ ret' = [op |-> "ticks", val |-> objs[o].n]
    /\ UNCHANGED <<ndebug, objs, heap, outcome>>
    /\ UNCHANGED driverVars

\* o.size()
Size(o) ==
    /\ Running /\ Live(o)
    /\ ret' = [op |-> "size", val |-> objs[o].length]
    /\ UNCHANGED <<ndebug, objs, heap, outcome>>
    /\ UNCHANGED driverVars

\* Axis o = src.refine();
Refine(o, src) ==
    /\ Running /\ ~Live(o) /\ Usable(src) /\ CanAlloc
    /\ objs[src].length <= MaxTicks
    /\ IF objs[src].length = 0
       THEN \* Axis refined(0 * 2 - 1): the allocation throws, no Axis is made
            /\ ret' = [op |-> "bad_alloc", val |-> objs[src].n]
            /\ UNCHANGED <<objs, heap>>
       ELSE /\ heap' = Alloc(heap, refine(TicksOf(src)))
            /\ objs' = [objs EXCEPT ![o] =
                         [st |-> "live", n |-> Len(heap) + 1,
                          length |-> objs[src].length * 2 - 1]]
            /\ ret' = [op |-> "refine", val |-> objs[src].n]
    /\ UNCHANGED <<ndebug, outcome>>
    /\ UNCHANGED driverVars

\* ---------------------------------------------------- Axis specification
InitAxis ==
    /\ ndebug \in BOOLEAN
    /\ objs = [o \in Objs |-> NoObj]
    /\ heap = <<>>
    /\ ret = NoRet
    /\ outcome = "ok"
    /\ IdleDriver

NextAxis ==
    \/ \E o \in Objs, list \in TickLists : ListCtor(o, list)
    \/ \E o \in Objs, vector \in TickLists : VectorCtor(o, vector)
    \/ \E o \in Objs, that \in Objs : CopyCtor(o, that)
    \/ \E o \in Objs, that \in Objs : MoveCtor(o, that)
    \/ \E o \in Objs : Dtor(o)
    \/ \E o \in Objs, src \in Objs : CopyAssign(o, src)
    \/ \E o \in Objs, src \in Objs : MoveAssign(o, src)
    \/ \E o \in Objs, i \in TickIdx, val \in TickVals : WriteTick(o, i, val)
    \/ \E o \in Objs, i \in TickIdx : ReadTick(o, i)
    \/ \E o \in Objs : Ticks(o)
    \/ \E o \in Objs : Size(o)
    \/ \E o \in Objs, src \in Objs : Refine(o, src)

SpecAxis == InitAxis /\ [][NextAxis]_vars

\* ------------------------------------------- refinement of a given Axis
\* Axis a(vector) for any vector over EdgeVals, then refinements of it
InitTicks ==
    /\ ndebug \in BOOLEAN
    /\ \E vector \in EdgeLists :
          /\ heap = Alloc(<<>>, vector)
          /\ objs = [o \in Objs |->
                      IF o = "a" THEN [st |-> "live", n |-> 1, length |-> Len(vector)]
                      ELSE NoObj]
    /\ ret = NoRet
    /\ outcome = "ok"
    /\ IdleDriver

NextTicks ==
    \/ \E o \in Objs, src \in Objs : Refine(o, src)
    \/ \E o \in Objs : Dtor(o)
    \/ \E o \in Objs : Size(o)

SpecTicks == InitTicks /\ [][NextTicks]_vars

\* ------------------------------------------------ bermudan_put: options
\* The driver's Reals (K, T, r, v, q, the grid's ticks, the iterate) are exact
\* decimals kept in hundredths; only comparisons, K - S and max are applied
\* to them.
DefaultK == 10000
DefaultT == 100
DefaultRate == 4
DefaultVol == 20
DefaultQ == 0
DefaultR == 0
DefaultE == 10
DefaultN == 25

\* the most options one command line holds
MaxArgs == 3

\* the option characters getopt returns for "d:e:hK:N:r:R:T:v:"; "?" stands
\* for an unknown option or a missing argument
OptChars == {"d", "e", "h", "K", "N", "r", "R", "T", "v", "?"}

\* the option arguments tried: -1, 0, 2, x and .5
OptArgs == {<<"-", "1">>, <<"0">>, <<"2">>, <<"x">>, <<".", "5">>}

DigitVal == [c \in {"0", "1", "2", "5"} |-> CASE c = "0" -> 0 [] c = "1" -> 1
                                              [] c = "2" -> 2 [] c = "5" -> 5]

IsDigit(c) == c \in DOMAIN DigitVal

\* the value of the digits of s from position p on, and where they stop
RECURSIVE Digits(_, _, _)
Digits(s, p, acc) ==
    IF p <= Len(s) /\ IsDigit(s[p])
    THEN Digits(s, p + 1, acc * 10 + DigitVal[s[p]])
    ELSE [val |-> acc, stop |-> p]

\* atoi: an optional sign, then digits up to the first other character
Atoi(s) ==
    IF Len(s) >= 1 /\ s[1] = "-" THEN -Digits(s, 2, 0).val
    ELSE Digits(s, 1, 0).val

\* atof, in hundredths: an optional sign, digits, and after a "." up to two
\* more digits
Atof(s) ==
    LET neg   == Len(s) >= 1 /\ s[1] = "-"
        whole == Digits(s, IF neg THEN 2 ELSE 1, 0)
        p     == whole.stop
        d1    == IF p + 1 <= Len(s) /\ s[p] = "." /\ IsDigit(s[p + 1])
                 THEN DigitVal[s[p + 1]] ELSE 0
        d2    == IF p + 2 <= Len(s) /\ s[p] = "." /\ IsDigit(s[p + 1]) /\ IsDigit(s[p + 2])
                 THEN DigitVal[s[p + 2]] ELSE 0
        mag   == whole.val * 100 + d1 * 10 + d2
    IN  IF neg THEN -mag ELSE mag

\* a check that lets N = 0 through (< for <=)
StepsRejectedBelowZero(n) == n < 0

\* the checks of the switch: if(e < 0), if(N <= 0), if(R < 0), if(T <= 0.)
ExercisesRejected(n) == n < 0

StepsRejected(n) == n <= 0

RefinementRejected(n) == n < 0

ExpiryRejected(t) == t <= 0

Fail(msg) ==
    /\ err' = msg
    /\ exit' = 1
    /\ pc' = "exit"

\* one turn of while((c = getopt(...)) != -1) in which getopt returned the
\* option c with the argument optarg
Getopt(c, optarg) ==
    /\ pc = "getopt" /\ optind < MaxArgs
    /\ optind' = optind + 1
    /\ CASE c = "d" -> /\ q' = Atof(optarg)
                       /\ UNCHANGED <<K, T, r, v, R, e, N, pc, exit, err>>
         [] c = "e" -> /\ e' = Atoi(optarg)
                       /\ IF ExercisesRejected(Atoi(optarg))
                          THEN Fail("error: the number of premature exercises must be nonnegative")
                          ELSE UNCHANGED <<pc, exit, err>>
                       /\ UNCHANGED <<K, T, r, v, q, R, N>>
         [] c = "h" -> /\ err' = "help"
                       /\ exit' = 0
                       /\ pc' = "exit"
                       /\ UNCHANGED <<K, T, r, v, q, R, e, N>>
         [] c = "K" -> /\ K' = Atof(optarg)
                       /\ UNCHANGED <<T, r, v, q, R, e, N, pc, exit, err>>
         [] c = "N" -> /\ N' = Atoi(optarg)
                       /\ IF StepsRejected(Atoi(optarg))
                          THEN Fail("error: the number of steps must be positive")
                          ELSE UNCHANGED <<pc, exit, err>>
                       /\ UNCHANGED <<K, T, r, v, q, R, e>>
         [] c = "r" -> /\ r' = Atof(optarg)
                       /\ UNCHANGED <<K, T, v, q, R, e, N, pc, exit, err>>
         [] c = "R" -> /\ R' = Atoi(optarg)
                       /\ IF RefinementRejected(Atoi(optarg))
                          THEN Fail("error: the maximum level of refinement must be nonnegative")
                          ELSE UNCHANGED <<pc, exit, err>>
                       /\ UNCHANGED <<K, T, r, v, q, e, N>>
         [] c = "T" -> /\ T' = Atof(optarg)
                       /\ IF ExpiryRejected(Atof(optarg))
                          THEN Fail("error: expiry time must be positive")
                          ELSE UNCHANGED <<pc, exit, err>>
                       /\ UNCHANGED <<K, r, v, q, R, e, N>>
         [] c = "v" -> /\ v' = Atof(optarg)
                       /\ UNCHANGED <<K, T, r, q, R, e, N, pc, exit, err>>
         [] c = "?" -> /\ Fail("help")
                       /\ UNCHANGED <<K, T, r, v, q, R, e, N>>
    /\ UNCHANGED <<charUnsigned, out, grid, refineI, events>>
    /\ UNCHANGED <<stepVars, axisVars>>

\* getopt returned -1.  c is a char: where char is unsigned c holds 255, the
\* test c != -1 stays true, no case matches and the loop turns again
GetoptEnd ==
    /\ pc = "getopt"
    /\ pc' = IF charUnsigned THEN "getopt" ELSE "grid"
    /\ UNCHANGED <<charUnsigned, K, T, r, v, q, R, e, N, optind, exit, err, out,
                   grid, refineI, events>>
    /\ UNCHANGED <<stepVars, axisVars>>

\* ---------------------------------------------------- bermudan_put: run
\* the ticks of the driver's Axis literal, in whole units
GridTicks ==
    <<0, 10, 20, 30, 40, 50, 60, 70, 75, 80, 84, 88, 92, 94, 96, 98, 100, 102,
      104, 106, 108, 110, 114, 118, 123, 130, 140, 150, 175, 225, 300, 750,
      2000, 10000>>

\* RectilinearGrid1 grid( Axis { ... } )
BuildGrid ==
    /\ pc = "grid"
    /\ IF ~ndebug /\ ~MonotoneCheck(GridTicks, 1)
       THEN /\ outcome' = "assert" /\ pc' = "exit"
            /\ UNCHANGED grid
       ELSE /\ grid' = GridTicks /\ pc' = "refine"
            /\ UNCHANGED outcome
    /\ refineI' = 0
    /\ UNCHANGED <<charUnsigned, K, T, r, v, q, R, e, N, optind, exit, err, out, events>>
    /\ UNCHANGED <<stepVars, ndebug, objs, heap, ret>>

\* one turn of for(int i = 0; i < R; i++) grid.refine(...): refine() returns
\* the refined grid and leaves grid as it is; the driver drops what it returns
RefineGrid ==
    /\ pc = "refine" /\ refineI < R
    /\ refineI' = refineI + 1
    /\ UNCHANGED <<charUnsigned, pc, K, T, r, v, q, R, e, N, optind, exit, err, out,
                   grid, events>>
    /\ UNCHANGED <<stepVars, axisVars>>

\* the refinement loop ends; factory(N) and stepper(0., T, factory) are made
MakeStepper ==
    /\ pc = "refine" /\ ~(refineI < R)
    /\ nsteps' = N
    /\ pc' = "events"
    /\ UNCHANGED <<charUnsigned, K, T, r, v, q, R, e, N, optind, exit, err, out,
                   grid, refineI, events>>
    /\ UNCHANGED <<nodes, step, iterate, phase, applied, axisVars>>

\* the events registered one exercise date late: m = 1 .. e
RegisterEventsLate(n, strike) ==
    [m \in 1..n |-> [num |-> m, den |-> n, K |-> strike]]

\* for(unsigned m = 0; m < e; m++) stepper.add(T / e * m, [K] ..., grid): the
\* events in registration order, each at the fraction num/den of T and with
\* its own copy of K
RegisterEvents(n, strike) ==
    [m \in 1..n |-> [num |-> m - 1, den |-> n, K |-> strike]]

AddEvents ==
    /\ pc = "events"
    /\ events' = RegisterEvents(e, K)
    /\ pc' = "solve"
    /\ UNCHANGED <<charUnsigned, K, T, r, v, q, R, e, N, optind, exit, err, out,
                   grid, refineI>>
    /\ UNCHANGED <<stepVars, axisVars>>

\* auto V = stepper.solve(grid, payoff, bdf2, solver), as one step of main
Solve ==
    /\ pc = "solve" /\ phase = "idle"
    /\ nodes' = grid
    /\ step' = nsteps
    /\ phase' = "done"
    /\ pc' = "print"
    /\ UNCHANGED <<charUnsigned, K, T, r, v, q, R, e, N, optind, exit, err, out,
                   grid, refineI, events>>
    /\ UNCHANGED <<nsteps, iterate, applied, axisVars>>

\* cout << printGrid.accessor( printGrid.image( V ) ) << endl; return 0;
PrintSolution ==
    /\ pc = "print"
    /\ out' = "solution"
    /\ exit' = 0
    /\ pc' = "exit"
    /\ UNCHANGED <<charUnsigned, K, T, r, v, q, R, e, N, optind, err, grid, refineI, events>>
    /\ UNCHANGED <<stepVars, axisVars>>

InitMain ==
    /\ charUnsigned \in BOOLEAN
    /\ pc = "getopt"
    /\ K = DefaultK /\ T = DefaultT /\ r = DefaultRate /\ v = DefaultVol /\ q = DefaultQ
    /\ R = DefaultR /\ e = DefaultE /\ N = DefaultN
    /\ optind = 0 /\ exit = -1 /\ err = "" /\ out = ""
    /\ grid = <<>> /\ refineI = 0 /\ events = <<>>
    /\ nodes = <<>> /\ nsteps = 0 /\ step = 0 /\ iterate = <<>>
    /\ phase = "idle" /\ applied = <<>>
    /\ ndebug \in BOOLEAN
    /\ objs = [o \in Objs |-> NoObj]
    /\ heap = <<>>
    /\ ret = NoRet
    /\ outcome = "ok"

NextMain ==
    \/ \E c \in OptChars, optarg \in OptArgs : Getopt(c, optarg)
    \/ GetoptEnd
    \/ BuildGrid
    \/ RefineGrid
    \/ MakeStepper
    \/ AddEvents
    \/ Solve
    \/ PrintSolution

SpecMain == InitMain /\ [][NextMain]_vars

\* ------------------------------------------------ the stepper's backward run
\* the most exercise dates and time steps of a stepwise run
MaxE == 3
MaxN == 3

\* the strikes, grids and solved values of a stepwise run
StrikeVals == {2, 4}

StepGrids == {<<0, 2>>, <<1, 3, 5>>}

SolVals == {0, 1}

Max(a, b) == IF a < b THEN b ELSE a

\* an exercise event that takes the smaller of the two values
ExerciseMin(VS, strike, S) == IF VS < strike - S THEN VS ELSE strike - S

\* [K] (const Interpolant1 &V, Real S) { return max( V(S) , K - S ); }, given
\* the value VS of V(S)
Exercise(VS, strike, S) == Max(VS, strike - S)

\* auto payoff = [K] (Real S) { return S < K ? K - S : 0.; }
Payoff(strike, S) == IF S < strike THEN strike - S ELSE 0

\* the Interpolant of the values vals on the nodes ns, at a coordinate that
\* is a node: that node's value
Interpolant(vals, ns, S) == vals[CHOOSE k \in 1..Len(ns) : ns[k] = S]

\* event ev lies in the step that ended with k steps solved: at or after
\* the time T (nsteps - k)/nsteps it reached and before the time the step
\* started from (times over the common denominator den * nsteps)
InStep(ev, k) ==
    /\ (nsteps - k) * ev.den <= ev.num * nsteps
    /\ ev.num * nsteps < (nsteps - k + 1) * ev.den

WasApplied(x) == \E a \in 1..Len(applied) : applied[a].ev = x

\* the events of the step just solved that are still to be applied
Due == {x \in 1..Len(events) : InStep(events[x], step) /\ ~WasApplied(x)}

\* the next one: the latest in time, the first registered among equals
NextDue ==
    CHOOSE x \in Due : \A y \in Due :
        \/ events[y].num < events[x].num
        \/ (events[y].num = events[x].num /\ x <= y)

\* the linear system of one step is solved: the iterate is whatever the
\* solver returned, the time moves one step back
StepSolve(sol) ==
    /\ phase = "solve" /\ step < nsteps
    /\ Len(sol) = Len(nodes)
    /\ iterate' = sol
    /\ step' = step + 1
    /\ phase' = "events"
    /\ UNCHANGED <<nodes, nsteps, applied, mainVars, axisVars>>

\* the next event of the step is applied: every node's value becomes the
\* event's function of the Interpolant of the iterate and the node
ApplyEvent ==
    /\ phase = "events" /\ Due # {}
    /\ iterate' = [k \in 1..Len(nodes) |->
                     Exercise(Interpolant(iterate, nodes, nodes[k]),
                              events[NextDue].K, nodes[k])]
    /\ applied' = Append(applied, [ev |-> NextDue, after |-> step])
    /\ UNCHANGED <<nodes, nsteps, step, phase, mainVars, axisVars>>

\* the step is over: the next one starts, or the run is done at time 0
EndStep ==
    /\ phase = "events" /\ Due = {}
    /\ phase' = IF step = nsteps THEN "done" ELSE "solve"
    /\ UNCHANGED <<nodes, nsteps, step, iterate, applied, mainVars, axisVars>>

\* main() at stepper.solve: N steps, e events registered, the iterate set to
\* the payoff on the grid
InitStepper ==
    /\ charUnsigned = FALSE
    /\ pc = "solve"
    /\ K \in StrikeVals
    /\ T = DefaultT /\ r = DefaultRate /\ v = DefaultVol /\ q = DefaultQ
    /\ R = DefaultR /\ e \in 0..MaxE /\ N \in 1..MaxN
    /\ optind = 0 /\ exit = -1 /\ err = "" /\ out = ""
    /\ grid \in StepGrids /\ refineI = 0
    /\ events = RegisterEvents(e, K)
    /\ nodes = grid /\ nsteps = N /\ step = 0
    /\ iterate = [k \in 1..Len(grid) |-> Payoff(K, grid[k])]
    /\ phase = "solve" /\ applied = <<>>
    /\ ndebug = FALSE
    /\ objs = [o \in Objs |-> NoObj]
    /\ heap = <<>>
    /\ ret = NoRet
    /\ outcome = "ok"

NextStepper ==
    \/ \E sol \in SeqsUpTo(SolVals, 3) : StepSolve(sol)
    \/ ApplyEvent
    \/ EndStep

SpecStepper == InitStepper /\ [][NextStepper]_vars

\* ------------------------------------------------------ claims on Axis
StrictlyIncreasing(s) == \A k \in 1..(Len(s) - 1) : s[k] < s[k + 1]

\* a + b needs no rounding and (a + b)/2 is a Real
ExactMean(a, b) == (a + b) % 2 = 0 /\ Abs(a + b) < MaxMant

C2_DeepCopy ==
    [][\A o \in Objs, src \in Objs :
         /\ (CopyCtor(o, src) \/ CopyAssign(o, src))
            => /\ TicksOf(o)' = TicksOf(src)
               /\ objs'[o].length = objs[src].length
               /\ o # src => (TicksOf(src)' = TicksOf(src) /\ objs'[src] = objs[src])
               /\ \A x \in Objs \ {o} :
                     (objs'[x].st = "live" /\ objs'[x].n # NULL)
                     => objs'[x].n # objs'[o].n
         /\ (o # src /\ Live(src) /\
              ((\E i \in TickIdx, val \in TickVals : WriteTick(o, i, val)) \/ Dtor(o)))
            => (TicksOf(src)' = TicksOf(src) /\ objs'[src] = objs[src])
      ]_vars

\* right after Axis b(a): two Axes, equal ticks, two buffers
C2_Witness ==
    /\ ret.op = "copy"
    /\ \E o \in Objs, src \in Objs :
          /\ o # src /\ Usable(o) /\ Usable(src)
          /\ objs[src].n = ret.val /\ objs[o].n # objs[src].n
          /\ objs[o].length = 2 /\ TicksOf(o) = TicksOf(src)
          /\ StrictlyIncreasing(TicksOf(src))

\* the operations claim C3 lists, applied to o, with the write through the
\* reference operator()(i) returns among them
ListedUse(o) ==
    \/ \E i \in TickIdx : ReadTick(o, i)
    \/ Ticks(o)
    \/ Size(o)
    \/ \E x \in Objs : Refine(x, o)
    \/ \E x \in Objs : CopyCtor(x, o)
    \/ \E x \in Objs \ {o} : CopyAssign(x, o)

Kept(o) == TicksOf(o)' = TicksOf(o) /\ objs'[o] = objs[o]

\* C3 as claimed: no public operation listed (operator()(i), ticks(), size(),
\* refine(), being copied from) changes the length or a tick of an Axis.
C3_Immutable ==
    [][\A o \in Objs :
         (ListedUse(o) \/ \E i \in TickIdx, val \in TickVals : WriteTick(o, i, val))
         => Kept(o)
      ]_vars

\* C3 as amended: the const operations (const operator()(i), ticks(), size(),
\* refine(), being copied from) change neither the length nor a tick.
C3_ConstOpsKeep ==
    [][\A o \in Objs : ListedUse(o) => Kept(o)]_vars

\* right after b = a.refine() with a still there
C3_Witness ==
    /\ ret.op = "refine"
    /\ \E o \in Objs : Usable(o) /\ objs[o].n = ret.val /\ objs[o].length = 2

\* C4: no two live Axes point at the same buffer, no buffer is released twice
\* or while a live Axis points at it, and once every Axis is destroyed every
\* buffer allocated has been released.
C4_ExclusiveOwnership ==
    /\ \A o \in Objs, x \in Objs :
          (o # x /\ Usable(o) /\ Usable(x)) => objs[o].n # objs[x].n
    /\ \A p \in 1..Len(heap) : heap[p].freed <= 1
    /\ \A o \in Objs : Usable(o) => heap[objs[o].n].freed = 0
    /\ (Running /\ \A o \in Objs : ~Live(o))
          => \A p \in 1..Len(heap) : heap[p].freed = 1

\* every Axis destroyed after all the allocations the bound allows
C4_Witness ==
    /\ Running
    /\ Len(heap) = MaxAllocs
    /\ \A o \in Objs : ~Live(o)

\* C5: in a debug build Axis(list) succeeds iff the list is non-empty and
\* strictly increasing; it then holds the list's values in order, and
\* otherwise an assertion fails and no Axis is made.
C5_ListCtorChecks ==
    [][\A o \in Objs, list \in TickLists :
         (ListCtor(o, list) /\ ~ndebug)
         => IF Len(list) > 0 /\ StrictlyIncreasing(list)
            THEN /\ outcome' = "ok"
                 /\ objs'[o].st = "live"
                 /\ objs'[o].length = Len(list)
                 /\ TicksOf(o)' = list
            ELSE /\ outcome' = "assert"
                 /\ objs' = objs
      ]_vars

\* a debug build stopped by a list with equal neighbours
C5_Witness ==
    /\ ~ndebug
    /\ outcome = "assert"
    /\ Len(heap) >= 1
    /\ LET list == heap[Len(heap)].data
       IN  Len(list) = 2 /\ list[1] = list[2]

\* C6: every Axis has at least one tick (stated for the debug build, where
\* the constructors' preconditions are checked).
C6_AtLeastOneTick == \A o \in Objs : (~ndebug /\ Live(o)) => objs[o].length >= 1

\* C10: the ticks of the Axis refine() returns are strictly increasing
\* whenever the ticks of the Axis it is applied to are.
C10_RefineKeepsOrder ==
    [][\A o \in Objs, src \in Objs :
         (Refine(o, src) /\ objs[src].length >= 1 /\ StrictlyIncreasing(TicksOf(src)))
         => StrictlyIncreasing(TicksOf(o)')
      ]_vars

\* ------------------------------------------------- claims on the driver
Violates(c, optarg) ==
    \/ c = "e" /\ Atoi(optarg) < 0
    \/ c = "N" /\ Atoi(optarg) <= 0
    \/ c = "R" /\ Atoi(optarg) < 0
    \/ c = "T" /\ Atof(optarg) <= 0

Reached == pc \in {"grid", "refine", "events", "solve", "print"} \/ out # ""

C7_Step ==
    \A c \in OptChars, optarg \in OptArgs :
       Getopt(c, optarg)
       => IF c = "h" THEN exit' = 0 /\ pc' = "exit" /\ err' # ""
          ELSE IF c = "?" \/ Violates(c, optarg)
          THEN exit' > 0 /\ pc' = "exit" /\ err' # ""
          ELSE exit' = -1 /\ pc' = "getopt" /\ err' = ""

C7_State ==
    /\ (pc = "exit" /\ err # "")
          => (grid = <<>> /\ events = <<>> /\ phase = "idle" /\ out = "")
    /\ Reached => (N > 0 /\ e >= 0 /\ R >= 0 /\ T > 0)

C8_ExerciseFloor ==
    [][ApplyEvent
        => \A k \in 1..Len(nodes) : iterate'[k] >= events[NextDue].K - nodes[k]
      ]_vars

\* an event has lifted a node above anything the solver returned
C8_Witness ==
    /\ phase = "events" /\ applied # <<>>
    /\ applied[Len(applied)].after = step
    /\ \E k \in 1..Len(nodes) :
          /\ iterate[k] \notin SolVals
          /\ iterate[k] = events[applied[Len(applied)].ev].K - nodes[k]

\* C9: the events are applied in the order of the backward sweep (times
\* never increasing), each at most once and, when the run is done, exactly
\* once; each is applied after the solve of the step that covers its time,
\* and no step's solve begins while an event at or after the time reached is
\* still to be applied.
C9_EventOrder ==
    /\ \A a \in 1..Len(applied), b \in 1..Len(applied) :
          a < b => /\ events[applied[a].ev].num >= events[applied[b].ev].num
                   /\ applied[a].ev # applied[b].ev
                   /\ applied[a].after <= applied[b].after
    /\ \A a \in 1..Len(applied) :
          LET ev == events[applied[a].ev]
              k  == applied[a].after
          IN  /\ 1 <= k /\ k <= step
              /\ (nsteps - k) * ev.den <= ev.num * nsteps
              /\ ev.num * nsteps < (nsteps - k + 1) * ev.den
    /\ phase \in {"solve", "done"}
          => \A x \in 1..Len(events) :
                (events[x].num * nsteps >= (nsteps - step) * events[x].den)
                => Cardinality({a \in 1..Len(applied) : applied[a].ev = x}) = 1
    /\ phase = "done" => step = nsteps /\ Len(applied) = Len(events)

\* a finished run in which one step applied two events and an earlier step
\* another
C9_Witness ==
    /\ phase = "done" /\ Len(applied) = 3
    /\ applied[1].after < applied[2].after
    /\ applied[2].after = applied[3].after
    /\ events[applied[1].ev].num > events[applied[2].ev].num

====
